---- MODULE Spec2Model ----
(***************************************************************************)
(* A model of extract.py: the command line, the whisper flow               *)
(* (get_transcription_with_whisper), the metadata flow                     *)
(* (get_youtube_content) and the transcript pipeline (download_subtitles,  *)
(* process_transcript).                                                    *)
(*                                                                         *)
(* Python values.  A str is a sequence of one-character strings, so that   *)
(* strip, join and the formatting of integers are computed and not         *)
(* assumed.  A dict is a function whose DOMAIN is the set of keys that are *)
(* present ("k in d" is k \in DOMAIN d).  Where a variable can hold values *)
(* of several Python types the value is tagged: [t |-> "None"],            *)
(* [t |-> "str", v |-> ...], [t |-> "int", v |-> ...] and so on.  Messages *)
(* that the program only prints or embeds are opaque TLA+ strings.         *)
(***************************************************************************)
EXTENDS Integers, Sequences, FiniteSets, TLC

VARIABLES
    pc,             \* the position of the program
    args,           \* argparse's result: [method, format]
    environ,        \* os.getenv('OPENAI_API_KEY') after load_dotenv()
    provider,       \* what yt-dlp's extract_info(download=False) answers
    net,            \* what the subtitle server answers to requests.get
    subtitle_data,  \* the argument of a direct call of process_transcript
    probe,          \* how the ffmpeg version probe ended
    disk,           \* the files of the working directory
    calls,          \* the external calls made so far, in order
    video_info,     \* get_youtube_content's local
    processed_info, \* get_youtube_content's local
    exc,            \* the exception being handled / propagated, "" if none
    result,         \* the value the flow returned
    stdout,         \* what was printed, in order
    exit_code       \* the process's exit status, -1 while it runs

vars == <<pc, args, environ, provider, net, subtitle_data, probe, disk, calls,
          video_info, processed_info, exc, result, stdout, exit_code>>

----------------------------------------------------------------------------
(* Bounds of the model.                                                    *)

MaxEvents == 2
MaxSegs == 2
MaxFormats == 3

----------------------------------------------------------------------------
(* Python values and strings.                                              *)

PyNone == [t |-> "None"]
PyStr(s) == [t |-> "str", v |-> s]
PyInt(n) == [t |-> "int", v |-> n]
PyFloat(tenths) == [t |-> "float", tenths |-> tenths]
PyBool(b) == [t |-> "bool", v |-> b]
PyList(l) == [t |-> "list", v |-> l]

\* dict.get(key, default)
Get(d, key, default) == IF key \in DOMAIN d THEN d[key] ELSE default

\* The characters str.strip() removes (those the model's alphabet has).
Whitespace == {" ", "\n"}

RECURSIVE LStrip(_)
LStrip(s) ==
    IF s # <<>> /\ Head(s) \in Whitespace THEN LStrip(Tail(s)) ELSE s

RECURSIVE RStrip(_)
RStrip(s) ==
    IF s # <<>> /\ s[Len(s)] \in Whitespace
    THEN RStrip(SubSeq(s, 1, Len(s) - 1))
    ELSE s

\* str.strip()
Strip(s) == RStrip(LStrip(s))

\* sep.join(parts)
RECURSIVE Join(_, _)
Join(parts, sep) ==
    IF parts = <<>> THEN <<>>
    ELSE IF Len(parts) = 1 THEN parts[1]
    ELSE parts[1] \o sep \o Join(Tail(parts), sep)

Digits == <<"0", "1", "2", "3", "4", "5", "6", "7", "8", "9">>

RECURSIVE NatToStr(_)
NatToStr(n) ==
    IF n < 10 THEN <<Digits[n + 1]>>
    ELSE NatToStr(n \div 10) \o <<Digits[(n % 10) + 1]>>

\* f"{n:02d}": sign-aware zero padding to a minimum width of two.
Format02d(n) ==
    IF n < 0 THEN <<"-">> \o NatToStr(-n)
    ELSE IF n < 10 THEN <<"0">> \o NatToStr(n)
    ELSE NatToStr(n)

\* int(x / d) for d > 0: true division, then truncation toward zero.
IntOfTrueDiv(x, d) == IF x >= 0 THEN x \div d ELSE -((-x) \div d)

----------------------------------------------------------------------------
(* download_subtitles                                                      *)

\* The event list download_subtitles returns, or None.  A response is
\*   [kind |-> "ConnectionError"]            requests.get raises
\*   [kind |-> "http", status, body]         body: [t |-> "malformed"],
\*                                           [t |-> "null"], [t |-> "array"],
\*                                           [t |-> "object", v |-> dict]
DownloadSubtitlesValue(resp, format) ==
    IF resp.kind # "http" THEN PyNone                       \* get raises
    ELSE IF resp.status >= 400 THEN PyNone                  \* raise_for_status
    ELSE IF format = "json3" THEN
        IF resp.body.t = "malformed" THEN PyNone            \* json.loads raises
        ELSE IF resp.body.t = "null" THEN PyNone            \* 'in' raises TypeError
        ELSE IF resp.body.t = "array" THEN PyNone           \* falls off the end
        ELSE IF "events" \in DOMAIN resp.body.v
             THEN PyList(resp.body.v["events"])
             ELSE PyNone                                    \* falls off the end
    ELSE [t |-> "text"]                                     \* response.text

\* Whether the except branch ran (it prints).
DownloadSubtitlesRaised(resp, format) ==
    \/ resp.kind # "http"
    \/ resp.status >= 400
    \/ format = "json3" /\ resp.body.t \in {"malformed", "null"}

DownloadSubtitlesOut(resp, format) ==
    IF DownloadSubtitlesRaised(resp, format)
    THEN <<[kind |-> "message", text |-> "Error downloading subtitles"]>>
    ELSE <<>>

download_subtitles(resp, subtitle_url, format) ==
    [value |-> DownloadSubtitlesValue(resp, format),
     out   |-> DownloadSubtitlesOut(resp, format),
     calls |-> <<[fn |-> "download_subtitles", url |-> subtitle_url, format |-> format]>>]

----------------------------------------------------------------------------
(* process_transcript                                                      *)

\* next((fmt for fmt in subtitle_data if fmt['ext'] == 'json3'), None):
\* the index of the first json3 descriptor, 0 for None, -1 when fmt['ext']
\* raises KeyError on the way.
RECURSIVE FirstJson3From(_, _)
FirstJson3From(data, i) ==
    IF i > Len(data) THEN 0
    ELSE IF "ext" \notin DOMAIN data[i] THEN -1
    ELSE IF data[i]["ext"] = "json3" THEN i
    ELSE FirstJson3From(data, i + 1)

\* A selection that keeps the last json3 descriptor instead of the first.
LastJson3(data) ==
    IF \E i \in 1..Len(data) : "ext" \notin DOMAIN data[i] THEN -1
    ELSE LET js == {i \in 1..Len(data) : data[i]["ext"] = "json3"} IN
         IF js = {} THEN 0 ELSE CHOOSE i \in js : \A j \in js : j <= i

FirstJson3(data) == FirstJson3From(data, 1)

\* The inner loop: seg['utf8'].strip() of every segment that has the key.
RECURSIVE SegParts(_)
SegParts(segs) ==
    IF segs = <<>> THEN <<>>
    ELSE (IF "utf8" \in DOMAIN Head(segs)
          THEN <<Strip(Head(segs)["utf8"])>>
          ELSE <<>>) \o SegParts(Tail(segs))

\* format == 'text': the parts of all events, in order.
RECURSIVE TextParts(_)
TextParts(events) ==
    IF events = <<>> THEN <<>>
    ELSE (IF "segs" \in DOMAIN Head(events)
          THEN SegParts(Head(events)["segs"])
          ELSE <<>>) \o TextParts(Tail(events))

StartTime(event) == IntOfTrueDiv(Get(event, "tStartMs", 0), 1000)

Hours(start_time) == start_time \div 3600
\* The minutes of the whole duration, the hours not taken out.
MinutesOfTotal(start_time) == start_time \div 60

Minutes(start_time) == (start_time % 3600) \div 60
Seconds(start_time) == start_time % 60

\* f"{hours:02d}:{minutes:02d}:{seconds:02d}"
Timestamp(start_time) ==
    Format02d(Hours(start_time)) \o <<":">> \o
    Format02d(Minutes(start_time)) \o <<":">> \o
    Format02d(Seconds(start_time))

\* Whether the event appends a line: 'segs' in event and text_parts truthy.
EmitsLine(event) ==
    /\ "segs" \in DOMAIN event
    /\ SegParts(event["segs"]) # <<>>

\* f"[{timestamp}] {' '.join(text_parts)}"
MarkdownLine(event) ==
    <<"[">> \o Timestamp(StartTime(event)) \o <<"]", " ">>
            \o Join(SegParts(event["segs"]), <<" ">>)

RECURSIVE MarkdownLines(_)
MarkdownLines(events) ==
    IF events = <<>> THEN <<>>
    ELSE (IF EmitsLine(Head(events))
          THEN <<MarkdownLine(Head(events))>>
          ELSE <<>>) \o MarkdownLines(Tail(events))

\* The rendering of a non-empty downloaded event list.
Render(events, format) ==
    IF format = "text" THEN Join(TextParts(events), <<" ">>)
    ELSE IF format = "markdown" THEN Join(MarkdownLines(events), <<"\n", "\n">>)
    ELSE <<>>

\* process_transcript(subtitle_data, format), the server answering resp:
\* [exc, value, calls, out].  exc is "" when the call returns.
process_transcript(data, format, resp) ==
    IF data = <<>> THEN
        [exc |-> "", value |-> <<>>, calls |-> <<>>,
         out |-> <<[kind |-> "message", text |-> "Debug: No subtitle data received"]>>]
    ELSE LET i == FirstJson3(data) IN
        IF i = -1 THEN
            [exc |-> "KeyError: 'ext'", value |-> <<>>, calls |-> <<>>, out |-> <<>>]
        ELSE IF i = 0 THEN
            [exc |-> "", value |-> <<>>, calls |-> <<>>, out |-> <<>>]
        ELSE IF "url" \notin DOMAIN data[i] THEN
            [exc |-> "KeyError: 'url'", value |-> <<>>, calls |-> <<>>, out |-> <<>>]
        ELSE LET d == download_subtitles(resp, data[i]["url"], "json3") IN
            [exc   |-> "",
             value |-> IF d.value.t = "list" /\ d.value.v # <<>>
                       THEN Render(d.value.v, format)
                       ELSE <<>>,
             calls |-> d.calls,
             out   |-> d.out]

----------------------------------------------------------------------------
(* The inputs the model draws.                                             *)

BoundedSeq(S, n) == UNION {[1..k -> S] : k \in 0..n}

EmptyDict == [k \in {} |-> 0]

\* utf8 values: empty, whitespace only, padded, plain.
TextEmpty == <<>>
TextNewline == <<"\n">>
TextPaddedA == <<" ", "a", " ">>
TextB == <<"b">>

SegNoUtf8 == EmptyDict
Seg(utf8) == [k \in {"utf8"} |-> utf8]

\* Segment lists: every list of up to MaxSegs segments that lack utf8, have
\* an empty utf8 or a padded one, and some lists with a second text and with
\* whitespace-only text.
SegLists ==
    BoundedSeq({SegNoUtf8, Seg(TextEmpty), Seg(TextPaddedA)}, MaxSegs)
        \cup {<<Seg(TextNewline)>>,
              <<Seg(TextPaddedA), Seg(TextB)>>,
              <<Seg(TextB), Seg(TextNewline)>>}

StartTimesMs == {-1500, 999, 65000, 3725999, 360000000}

\* Events: without segs; with segs and no tStartMs; with tStartMs and a text.
Events ==
    {EmptyDict}
        \cup {[k \in {"segs"} |-> segs] : segs \in SegLists}
        \cup {[tStartMs |-> t, segs |-> <<Seg(TextB)>>] : t \in StartTimesMs}

EventSeqs == BoundedSeq(Events, MaxEvents)

HttpOk(body) == [kind |-> "http", status |-> 200, body |-> body]
JsonObject(d) == [t |-> "object", v |-> d]
EventsBody(events) == JsonObject([k \in {"events"} |-> events])
SomeEvents == <<[tStartMs |-> 65000, segs |-> <<Seg(TextPaddedA)>>]>>

\* Answers that carry no event list.
FailedResponses ==
    {[kind |-> "ConnectionError"],
     [kind |-> "http", status |-> 404, body |-> [t |-> "malformed"]],
     [kind |-> "http", status |-> 500, body |-> EventsBody(SomeEvents)],
     HttpOk([t |-> "malformed"]),
     HttpOk([t |-> "null"]),
     HttpOk([t |-> "array"]),
     HttpOk(JsonObject([k \in {"wireMagic"} |-> 0]))}

\* Subtitle-format descriptors: as the data model has them ({ext, url}),
\* and with a key missing.
WellFormedDescriptors ==
    {[ext |-> "json3", url |-> "U1"], [ext |-> "json3", url |-> "U2"],
     [ext |-> "vtt", url |-> "U3"], [ext |-> "srv3", url |-> "U4"]}
MalformedDescriptors ==
    {[k \in {"url"} |-> "U5"], [k \in {"ext"} |-> "json3"]}
Descriptors == WellFormedDescriptors \cup MalformedDescriptors

IsWellFormed(data) ==
    \A i \in 1..Len(data) : DOMAIN data[i] = {"ext", "url"}

----------------------------------------------------------------------------
(* A direct call of process_transcript.                                    *)

Idle ==
    /\ environ = PyNone
    /\ provider = [raises |-> TRUE]
    /\ probe = "unprobed"
    /\ disk = {}
    /\ calls = <<>>
    /\ video_info = EmptyDict
    /\ processed_info = EmptyDict
    /\ exc = ""
    /\ result = PyNone
    /\ stdout = <<>>
    /\ exit_code = -1

InitTranscript ==
    /\ pc = "call"
    /\ \E f \in {"text", "markdown"} : args = [method |-> "transcript", format |-> f]
    /\ \/ /\ subtitle_data = <<[ext |-> "json3", url |-> "U1"]>>
          /\ \E events \in EventSeqs : net = HttpOk(EventsBody(events))
       \/ /\ subtitle_data \in BoundedSeq(Descriptors, MaxFormats)
          /\ net \in FailedResponses \cup {HttpOk(EventsBody(SomeEvents))}
    /\ Idle

CallProcessTranscript ==
    /\ pc = "call"
    /\ LET r == process_transcript(subtitle_data, args.format, net) IN
        /\ result' = [exc |-> r.exc, value |-> r.value]
        /\ calls' = calls \o r.calls
        /\ stdout' = stdout \o r.out
    /\ pc' = "returned"
    /\ UNCHANGED <<args, environ, provider, net, subtitle_data, probe, disk,
                   video_info, processed_info, exc, exit_code>>

NextTranscript == CallProcessTranscript

SpecTranscript == InitTranscript /\ [][NextTranscript]_vars

----------------------------------------------------------------------------
(* The command line: __main__                                              *)

Message(text) == [kind |-> "message", text |-> text]
Record(value) == [kind |-> "record", value |-> value]

\* "not openai_key": None or the empty string.
NoKey(key) == key.t = "None" \/ key.v = ""

Main ==
    /\ pc = "main"
    /\ IF args.method = "whisper"
       THEN IF NoKey(environ)
            THEN /\ stdout' = Append(stdout,
                        Message("Error: OPENAI_API_KEY environment variable is not set"))
                 /\ exit_code' = 1
                 /\ pc' = "exit"
            ELSE /\ pc' = "check_ffmpeg"
                 /\ UNCHANGED <<stdout, exit_code>>
       ELSE /\ pc' = "extract_info"
            /\ UNCHANGED <<stdout, exit_code>>
    /\ UNCHANGED <<args, environ, provider, net, subtitle_data, probe, disk,
                   calls, video_info, processed_info, exc, result>>

\* print(result), then the script ends.
PrintResult ==
    /\ pc = "print"
    /\ stdout' = Append(stdout, Record(result))
    /\ exit_code' = 0
    /\ pc' = "exit"
    /\ UNCHANGED <<args, environ, provider, net, subtitle_data, probe, disk,
                   calls, video_info, processed_info, exc, result>>

----------------------------------------------------------------------------
(* get_transcription_with_whisper                                          *)

\* How subprocess.run(['ffmpeg', '-version']) can end: a return code, or
\* an OSError (no such file; found but not executable).
ProbeOutcomes ==
    {"returncode 0", "returncode 1", "FileNotFoundError", "PermissionError"}

\* check_ffmpeg_installed(): TRUE, FALSE, or "raises" for an exception that
\* its except clause does not name.
check_ffmpeg_installed(outcome) ==
    IF outcome = "FileNotFoundError" THEN "False"
    ELSE IF outcome = "PermissionError" THEN "raises"
    ELSE IF outcome = "returncode 0" THEN "True" ELSE "False"

FfmpegGuidance ==
    [success |-> FALSE, error |-> "FFmpeg is not installed. Please install FFmpeg first: ..."]

\* Lines 28-35.  The probe is outside the try block: an exception it lets
\* through leaves the function and the script (traceback, exit status 1).
CheckFfmpeg ==
    /\ pc = "check_ffmpeg"
    /\ \E outcome \in ProbeOutcomes :
        /\ probe' = outcome
        /\ calls' = Append(calls, [fn |-> "ffmpeg -version"])
        /\ LET installed == check_ffmpeg_installed(outcome) IN
            IF installed = "raises"
            THEN /\ exc' = outcome
                 /\ exit_code' = 1
                 /\ pc' = "exit"
                 /\ UNCHANGED result
            ELSE IF installed = "False"
            THEN /\ result' = FfmpegGuidance
                 /\ pc' = "print"
                 /\ UNCHANGED <<exc, exit_code>>
            ELSE /\ pc' = "download_audio"
                 /\ UNCHANGED <<exc, exit_code, result>>
    /\ UNCHANGED <<args, environ, provider, net, subtitle_data, disk,
                   video_info, processed_info, stdout>>

\* Line 50, the download: yt-dlp writes temp_audio.<ext> (here webm)
\* through a .part file; it can fail before writing, fail midway, or finish.
DownloadAudio ==
    /\ pc = "download_audio"
    /\ calls' = Append(calls, [fn |-> "ydl.extract_info(download=True)"])
    /\ \E outcome \in {"DownloadError", "interrupted", "downloaded"} :
        IF outcome = "downloaded"
        THEN /\ disk' = disk \cup {"temp_audio.webm"}
             /\ pc' = "extract_audio"
             /\ UNCHANGED exc
        ELSE /\ disk' = IF outcome = "interrupted"
                        THEN disk \cup {"temp_audio.webm.part"}
                        ELSE disk
             /\ exc' = "DownloadError"
             /\ pc' = "except"
    /\ UNCHANGED <<args, environ, provider, net, subtitle_data, probe,
                   video_info, processed_info, result, stdout, exit_code>>

\* Line 50, the FFmpegExtractAudio postprocessor: converts to
\* temp_audio.mp3 and deletes the download, or fails and leaves it.
ExtractAudio ==
    /\ pc = "extract_audio"
    /\ \E converted \in BOOLEAN :
        IF converted
        THEN /\ disk' = (disk \ {"temp_audio.webm"}) \cup {"temp_audio.mp3"}
             /\ pc' = "transcribe"
             /\ UNCHANGED exc
        ELSE /\ exc' = "PostProcessingError"
             /\ pc' = "except"
             /\ UNCHANGED disk
    /\ UNCHANGED <<args, environ, provider, net, subtitle_data, probe, calls,
                   video_info, processed_info, result, stdout, exit_code>>

\* Lines 53-66: open the mp3, parser.parse, os.remove, return.
Transcribe ==
    /\ pc = "transcribe"
    /\ \E outcome \in {"open raises", "parse raises", "parsed"} :
        /\ calls' = IF outcome = "open raises" THEN calls
                    ELSE Append(calls, [fn |-> "OpenAIWhisperParser.parse"])
        /\ IF outcome = "parsed"
           THEN /\ disk' = disk \ {"temp_audio.mp3"}
                /\ result' = [success |-> TRUE, transcription |-> "transcription"]
                /\ pc' = "print"
                /\ UNCHANGED exc
           ELSE /\ exc' = IF outcome = "open raises" THEN "OSError" ELSE "APIError"
                /\ pc' = "except"
                /\ UNCHANGED <<disk, result>>
    /\ UNCHANGED <<args, environ, provider, net, subtitle_data, probe,
                   video_info, processed_info, stdout, exit_code>>

\* The files the except clause removes.
Removed == {"temp_audio.mp3"}

\* Lines 68-75.
HandleException ==
    /\ pc = "except"
    /\ disk' = disk \ Removed
    /\ result' = [success |-> FALSE,
                  error |-> [text |-> "Failed to process video: ", e |-> exc]]
    /\ exc' = ""
    /\ pc' = "print"
    /\ UNCHANGED <<args, environ, provider, net, subtitle_data, probe, calls,
                   video_info, processed_info, stdout, exit_code>>

----------------------------------------------------------------------------
(* get_youtube_content                                                     *)

ErrorRecord(e) ==
    [k \in {"error"} |-> [text |-> "Error processing video: ", e |-> e]]

\* Lines 164-165 (and 202-206 when the provider raises).
ExtractInfo ==
    /\ pc = "extract_info"
    /\ calls' = Append(calls, [fn |-> "ydl.extract_info(download=False)"])
    /\ IF "info" \in DOMAIN provider
       THEN /\ video_info' = provider["info"]
            /\ pc' = "build_record"
            /\ UNCHANGED <<result, stdout>>
       ELSE /\ stdout' = Append(stdout, Message("Top-level error: DownloadError"))
            /\ result' = ErrorRecord("DownloadError")
            /\ pc' = "print"
            /\ UNCHANGED video_info
    /\ UNCHANGED <<args, environ, provider, net, subtitle_data, probe, disk,
                   processed_info, exc, exit_code>>

\* The record built with .get(key) throughout: no default but None.
ProcessedInfoNoDefaults(info) ==
    [k \in {"video_id", "thumbnail_url", "description", "length", "views",
            "author", "channel_id", "channel_url", "publish_date", "rating",
            "keywords", "age_restricted"} |->
        CASE k = "video_id"       -> Get(info, "id", PyNone)
          [] k = "thumbnail_url"  -> Get(info, "thumbnail", PyNone)
          [] k = "description"    -> Get(info, "description", PyNone)
          [] k = "length"         -> Get(info, "duration", PyNone)
          [] k = "views"          -> Get(info, "view_count", PyNone)
          [] k = "author"         -> Get(info, "uploader", PyNone)
          [] k = "channel_id"     -> Get(info, "channel_id", PyNone)
          [] k = "channel_url"    -> Get(info, "channel_url", PyNone)
          [] k = "publish_date"   -> Get(info, "upload_date", PyNone)
          [] k = "rating"         -> Get(info, "average_rating", PyNone)
          [] k = "keywords"       -> Get(info, "tags", PyNone)
          [] k = "age_restricted" -> PyBool(Get(info, "age_limit", PyInt(0)).v > 0)]

\* Lines 167-180.
ProcessedInfo(info) ==
    [k \in {"video_id", "thumbnail_url", "description", "length", "views",
            "author", "channel_id", "channel_url", "publish_date", "rating",
            "keywords", "age_restricted"} |->
        CASE k = "video_id"       -> Get(info, "id", PyNone)
          [] k = "thumbnail_url"  -> Get(info, "thumbnail", PyNone)
          [] k = "description"    -> Get(info, "description", PyStr(""))
          [] k = "length"         -> Get(info, "duration", PyInt(0))
          [] k = "views"          -> Get(info, "view_count", PyInt(0))
          [] k = "author"         -> Get(info, "uploader", PyStr(""))
          [] k = "channel_id"     -> Get(info, "channel_id", PyNone)
          [] k = "channel_url"    -> Get(info, "channel_url", PyNone)
          [] k = "publish_date"   -> Get(info, "upload_date", PyNone)
          [] k = "rating"         -> Get(info, "average_rating", PyFloat(0))
          [] k = "keywords"       -> Get(info, "tags", PyList(<<>>))
          [] k = "age_restricted" -> PyBool(Get(info, "age_limit", PyInt(0)).v > 0)]

BuildRecord ==
    /\ pc = "build_record"
    /\ processed_info' = ProcessedInfo(video_info)
    /\ pc' = "attach_transcript"
    /\ UNCHANGED <<args, environ, provider, net, subtitle_data, probe, disk,
                   calls, video_info, exc, result, stdout, exit_code>>

\* The two tracks tried in the other order.
TranscriptSourceAutoFirst(subtitles, auto_subtitles) ==
    IF "en" \in DOMAIN auto_subtitles THEN "auto-generated"
    ELSE IF "en" \in DOMAIN subtitles THEN "manual"
    ELSE "None"

\* Lines 187-197: which track the transcript is taken from.
TranscriptSource(subtitles, auto_subtitles) ==
    IF "en" \in DOMAIN subtitles THEN "manual"
    ELSE IF "en" \in DOMAIN auto_subtitles THEN "auto-generated"
    ELSE "None"

WithTranscript(info, transcript, source) ==
    [k \in DOMAIN info \cup {"transcript", "transcript_source"} |->
        IF k = "transcript" THEN transcript
        ELSE IF k = "transcript_source" THEN source
        ELSE info[k]]

\* Lines 182-200 (and 202-206 when process_transcript raises).
AttachTranscript ==
    /\ pc = "attach_transcript"
    /\ LET subtitles == Get(video_info, "subtitles", EmptyDict)
           auto_subtitles == Get(video_info, "automatic_captions", EmptyDict)
           source == TranscriptSource(subtitles, auto_subtitles)
       IN IF source = "None"
          THEN /\ processed_info' = WithTranscript(processed_info, PyNone, PyNone)
               /\ stdout' = Append(stdout,
                      Message("No English subtitles or auto-captions found"))
               /\ result' = processed_info'
               /\ UNCHANGED calls
          ELSE LET data == IF source = "manual" THEN subtitles["en"]
                                                ELSE auto_subtitles["en"]
                   r == process_transcript(data, args.format, net)
               IN /\ calls' = calls \o r.calls
                  /\ IF r.exc = ""
                     THEN /\ processed_info' =
                                WithTranscript(processed_info, PyStr(r.value), PyStr(source))
                          /\ stdout' = stdout \o r.out
                          /\ result' = processed_info'
                     ELSE /\ stdout' = stdout \o r.out
                                \o <<[kind |-> "message", text |-> "Top-level error: ",
                                      e |-> r.exc]>>
                          /\ result' = ErrorRecord(r.exc)
                          /\ UNCHANGED processed_info
    /\ pc' = "print"
    /\ UNCHANGED <<args, environ, provider, net, subtitle_data, probe, disk,
                   video_info, exc, exit_code>>

----------------------------------------------------------------------------
(* The program and the inputs of a run.                                    *)

MetaKeys ==
    {"id", "thumbnail", "description", "duration", "view_count", "uploader",
     "channel_id", "channel_url", "upload_date", "average_rating", "tags",
     "age_limit"}

\* A value of the documented type for each field the provider sends.
MetaValue(k, age_limit) ==
    CASE k = "id"             -> PyStr("dQw4")
      [] k = "thumbnail"      -> PyStr("https://i/t.jpg")
      [] k = "description"    -> PyStr("a description")
      [] k = "duration"       -> PyInt(212)
      [] k = "view_count"     -> PyInt(1000)
      [] k = "uploader"       -> PyStr("an uploader")
      [] k = "channel_id"     -> PyStr("UC1")
      [] k = "channel_url"    -> PyStr("https://c/UC1")
      [] k = "upload_date"    -> PyStr("20091025")
      [] k = "average_rating" -> PyFloat(45)
      [] k = "tags"           -> PyList(<<"music">>)
      [] k = "age_limit"      -> PyInt(age_limit)

\* A track dict: language tag -> descriptor list, for the tags in langs.
Track(langs, en, other) ==
    [l \in langs |-> IF l = "en" THEN en ELSE other]

\* The provider's answer: the fields in keys, and the tracks that are given
\* (a track of [absent |-> TRUE] leaves the key out).
VideoInfo(keys, age_limit, subtitles, auto) ==
    [k \in keys \cup (IF "absent" \in DOMAIN subtitles THEN {} ELSE {"subtitles"})
                \cup (IF "absent" \in DOMAIN auto THEN {} ELSE {"automatic_captions"}) |->
        IF k = "subtitles" THEN subtitles["dict"]
        ELSE IF k = "automatic_captions" THEN auto["dict"]
        ELSE MetaValue(k, age_limit)]

Absent == [k \in {"absent"} |-> TRUE]
Given(d) == [k \in {"dict"} |-> d]

ManualDescriptors ==
    {[ext |-> "json3", url |-> "M1"], [ext |-> "vtt", url |-> "M2"],
     [k \in {"url"} |-> "M3"], [k \in {"ext"} |-> "json3"]}
ManualLists == BoundedSeq(ManualDescriptors, MaxFormats)
AutoLists == {<<[ext |-> "json3", url |-> "A1"]>>, <<[ext |-> "vtt", url |-> "A2"]>>}
OtherList == <<[ext |-> "json3", url |-> "F1"]>>

Tracks(lists) ==
    {Absent} \cup {Given(Track(langs, en, OtherList)) :
                      langs \in SUBSET {"en", "fr"}, en \in lists}

Responses ==
    {[kind |-> "ConnectionError"],
     [kind |-> "http", status |-> 404, body |-> [t |-> "malformed"]],
     HttpOk([t |-> "malformed"]),
     HttpOk(JsonObject([k \in {"wireMagic"} |-> 0])),
     HttpOk(EventsBody(SomeEvents))}

Formats == {"text", "markdown"}
Keys == {PyNone, PyStr(""), PyStr("sk-1")}

\* --method whisper: any key, either format.
InitWhisper ==
    /\ \E f \in Formats : args = [method |-> "whisper", format |-> f]
    /\ environ \in Keys
    /\ provider = [raises |-> TRUE]
    /\ net = [kind |-> "ConnectionError"]

\* --method transcript, every subset of the metadata fields.
InitMeta ==
    /\ args = [method |-> "transcript", format |-> "text"]
    /\ environ \in {PyNone, PyStr("sk-1")}
    /\ \E keys \in SUBSET MetaKeys, age_limit \in {0, 18},
          subtitles \in {Absent, Given(Track({"en"}, <<[ext |-> "json3", url |-> "M1"]>>, <<>>))} :
            provider = [info |-> VideoInfo(keys, age_limit, subtitles, Absent)]
    /\ net = HttpOk(EventsBody(SomeEvents))

\* --method transcript, every combination of tracks and answers.
InitTracks ==
    /\ \E f \in Formats : args = [method |-> "transcript", format |-> f]
    /\ environ = PyNone
    /\ \/ provider = [raises |-> TRUE]
       \/ \E subtitles \in Tracks(ManualLists), auto \in Tracks(AutoLists) :
               provider = [info |-> VideoInfo(MetaKeys, 0, subtitles, auto)]
    /\ net \in Responses

Init ==
    /\ pc = "main"
    /\ InitWhisper \/ InitMeta \/ InitTracks
    /\ subtitle_data = <<>>
    /\ probe = "unprobed"
    /\ disk = {}
    /\ calls = <<>>
    /\ video_info = EmptyDict
    /\ processed_info = EmptyDict
    /\ exc = ""
    /\ result = PyNone
    /\ stdout = <<>>
    /\ exit_code = -1

Next ==
    \/ Main
    \/ CheckFfmpeg
    \/ DownloadAudio
    \/ ExtractAudio
    \/ Transcribe
    \/ HandleException
    \/ ExtractInfo
    \/ BuildRecord
    \/ AttachTranscript
    \/ PrintResult

Spec == Init /\ [][Next]_vars

----------------------------------------------------------------------------
(* The claims.  Those about a run of the program are stated of Spec, those *)
(* about process_transcript of SpecTranscript.                             *)

Downloads == SelectSeq(calls, LAMBDA c : c.fn = "download_subtitles")

\* C1: every return of get_transcription_with_whisper that got past the
\* ffmpeg probe leaves no temp_audio file on disk.
C1_TempFileRemoved ==
    (args.method = "whisper" /\ probe = "returncode 0" /\ pc \in {"print", "exit"})
        => disk = {}

\* C2: a failed ffmpeg probe (missing, not runnable, non-zero return code)
\* is reported as {success: False, error: guidance}, never raised, and the
\* probe is the only external call of the run.
C2_ProbeFailureReported ==
    probe \in {"returncode 1", "FileNotFoundError", "PermissionError"}
        => /\ exc = ""
           /\ result = FfmpegGuidance
           /\ calls = <<[fn |-> "ffmpeg -version"]>>

\* C3: the script exits 1 with an error message and no external call when
\* whisper is requested without a key; in every other case it prints
\* exactly one result record and exits 0.
C3_ExitCodes ==
    pc = "exit" =>
        IF args.method = "whisper" /\ NoKey(environ)
        THEN /\ exit_code = 1
             /\ stdout = <<Message("Error: OPENAI_API_KEY environment variable is not set")>>
             /\ calls = <<>>
        ELSE /\ exit_code = 0
             /\ Cardinality({i \in 1..Len(stdout) : stdout[i].kind = "record"}) = 1
             /\ stdout[Len(stdout)] = Record(result)

Json3Indexes(data) == {i \in 1..Len(data) : data[i]["ext"] = "json3"}
Min(S) == CHOOSE i \in S : \A j \in S : i <= j

\* C4: for a non-empty sequence of {ext, url} descriptors, process_transcript
\* calls download_subtitles exactly once, with the url of the first json3
\* descriptor and format json3, when there is one; otherwise it makes no
\* call and returns the empty string.
C4_FirstJson3Downloaded ==
    (pc = "returned" /\ subtitle_data # <<>> /\ IsWellFormed(subtitle_data)) =>
        /\ result.exc = ""
        /\ IF Json3Indexes(subtitle_data) # {}
           THEN calls = <<[fn |-> "download_subtitles",
                           url |-> subtitle_data[Min(Json3Indexes(subtitle_data))]["url"],
                           format |-> "json3"]>>
           ELSE calls = <<>> /\ result.value = <<>>

C4_Witness ==
    /\ pc = "returned"
    /\ subtitle_data = <<[ext |-> "srv3", url |-> "U4"], [ext |-> "json3", url |-> "U1"],
                         [ext |-> "vtt", url |-> "U3"]>>
    /\ calls = <<[fn |-> "download_subtitles", url |-> "U1", format |-> "json3"]>>

\* The event list of a direct call whose download succeeded.
Rendered(format) ==
    /\ pc = "returned"
    /\ args.format = format
    /\ subtitle_data = <<[ext |-> "json3", url |-> "U1"]>>
    /\ net.kind = "http" /\ net.status = 200
    /\ net.body.t = "object" /\ "events" \in DOMAIN net.body.v
InputEvents == net.body.v["events"]

RECURSIVE Flatten(_)
Flatten(seqs) == IF seqs = <<>> THEN <<>> ELSE Head(seqs) \o Flatten(Tail(seqs))

Map(f(_), seq) == [i \in 1..Len(seq) |-> f(seq[i])]

\* The stripped utf8 of a segment that has a non-empty utf8; nothing otherwise.
NonEmptySegPart(seg) ==
    IF "utf8" \in DOMAIN seg /\ seg["utf8"] # <<>> THEN <<Strip(seg["utf8"])>> ELSE <<>>
NonEmptyEventParts(event) ==
    IF "segs" \in DOMAIN event
    THEN Flatten(Map(NonEmptySegPart, event["segs"]))
    ELSE <<>>

\* C5: in text mode the result is the stripped utf8 of exactly the segments
\* with a non-empty utf8, in order, joined by single spaces.
C5_TextOfNonEmptySegments ==
    Rendered("text") =>
        result.value = Join(Flatten(Map(NonEmptyEventParts, InputEvents)), <<" ">>)

\* Whether some segment of the event yields a non-empty stripped utf8.
YieldsText(event) ==
    /\ "segs" \in DOMAIN event
    /\ \E i \in 1..Len(event["segs"]) :
          /\ "utf8" \in DOMAIN event["segs"][i]
          /\ Strip(event["segs"][i]["utf8"]) # <<>>

LineIfYieldsText(event) ==
    IF YieldsText(event) THEN <<MarkdownLine(event)>> ELSE <<>>

\* C6: in markdown mode the result has exactly one line per event that
\* yields some non-empty stripped text, in order, the lines separated by one
\* blank line; other events emit nothing.
C6_LinePerEventWithText ==
    Rendered("markdown") =>
        result.value = Join(Flatten(Map(LineIfYieldsText, InputEvents)), <<"\n", "\n">>)

\* The quotient of t by 1000 rounded toward zero: the remainder has the
\* sign of t and is smaller than 1000.
TowardZero(t) ==
    CHOOSE q \in {t \div 1000, (t \div 1000) + 1} :
        LET r == t - q * 1000 IN
            /\ -1000 < r /\ r < 1000
            /\ t >= 0 => r >= 0
            /\ t <= 0 => r <= 0

Floor(t) == t \div 1000

TwoDigits(n) ==
    IF n < 0 THEN <<"-">> \o NatToStr(-n)
    ELSE IF n <= 9 THEN <<"0", Digits[n + 1]>>
    ELSE NatToStr(n)

\* HH:MM:SS of the only hours, minutes in 0..59 and seconds in 0..59 with
\* hours*3600 + minutes*60 + seconds = start.
Clock(start) ==
    LET seconds == start % 60
        minutes == ((start - seconds) \div 60) % 60
        hours == (start - seconds - minutes * 60) \div 3600
    IN TwoDigits(hours) \o <<":">> \o TwoDigits(minutes) \o <<":">> \o TwoDigits(seconds)

LineAt(event, start) ==
    IF EmitsLine(event)
    THEN <<(<<"[">> \o Clock(start) \o <<"]", " ">>
                \o Join(SegParts(event["segs"]), <<" ">>))>>
    ELSE <<>>

FloorLine(event) == LineAt(event, Floor(Get(event, "tStartMs", 0)))
TowardZeroLine(event) == LineAt(event, TowardZero(Get(event, "tStartMs", 0)))

\* C10, as claimed: the timestamp of every emitted line is that of
\* start_time = floor(tStartMs / 1000).
C10_FloorTimestamps ==
    Rendered("markdown") =>
        result.value = Join(Flatten(Map(FloorLine, InputEvents)), <<"\n", "\n">>)

\* C10, amended: the timestamp of every emitted line is that of
\* start_time = tStartMs / 1000 rounded toward zero (a missing tStartMs
\* counting as 0), split as hours*3600 + minutes*60 + seconds with minutes
\* and seconds in 0..59, each field zero-padded to two digits and hours
\* not capped.
C10_TowardZeroTimestamps ==
    Rendered("markdown") =>
        result.value = Join(Flatten(Map(TowardZeroLine, InputEvents)), <<"\n", "\n">>)

C10_Witness ==
    /\ Rendered("markdown")
    /\ InputEvents = <<[tStartMs |-> 65000, segs |-> <<Seg(TextB)>>],
                       [tStartMs |-> 360000000, segs |-> <<Seg(TextB)>>]>>
    /\ result.value = <<"[", "0", "0", ":", "0", "1", ":", "0", "5", "]", " ", "b",
                        "\n", "\n",
                        "[", "1", "0", "0", ":", "0", "0", ":", "0", "0", "]", " ", "b">>

\* A finished run of get_youtube_content that the provider answered.
ContentDone ==
    /\ pc = "exit"
    /\ args.method = "transcript"
    /\ "info" \in DOMAIN provider
Info == provider["info"]
ManualTrack == Get(Info, "subtitles", EmptyDict)
AutoTrack == Get(Info, "automatic_captions", EmptyDict)
Chosen ==
    IF "en" \in DOMAIN ManualTrack THEN ManualTrack["en"]
    ELSE IF "en" \in DOMAIN AutoTrack THEN AutoTrack["en"]
    ELSE <<>>
Urls(data) == {data[i]["url"] : i \in 1..Len(data)}
DownloadsFrom(data) ==
    \A i \in 1..Len(Downloads) : Downloads[i].url \in Urls(data)

\* C7: transcript_source is 'manual' when subtitles has 'en' (the transcript
\* rendered from that track, nothing else downloaded), else 'auto-generated'
\* when automatic_captions has 'en', else transcript and transcript_source
\* are None and nothing is downloaded; tracks of other languages have no
\* part in it.  (Descriptors as the data model has them: {ext, url}.)
C7_ManualThenAuto ==
    (ContentDone /\ IsWellFormed(Chosen)) =>
        /\ "error" \notin DOMAIN result
        /\ IF "en" \in DOMAIN ManualTrack THEN
              /\ result["transcript_source"] = PyStr("manual")
              /\ result["transcript"] =
                    PyStr(process_transcript(ManualTrack["en"], args.format, net).value)
              /\ DownloadsFrom(ManualTrack["en"])
           ELSE IF "en" \in DOMAIN AutoTrack THEN
              /\ result["transcript_source"] = PyStr("auto-generated")
              /\ result["transcript"] =
                    PyStr(process_transcript(AutoTrack["en"], args.format, net).value)
              /\ DownloadsFrom(AutoTrack["en"])
           ELSE
              /\ result["transcript_source"] = PyNone
              /\ result["transcript"] = PyNone
              /\ Downloads = <<>>

C7_Witness ==
    /\ ContentDone
    /\ "en" \in DOMAIN ManualTrack /\ "fr" \in DOMAIN ManualTrack
    /\ "en" \in DOMAIN AutoTrack
    /\ "error" \notin DOMAIN result
    /\ result["transcript_source"] = PyStr("manual")
    /\ result["transcript"] = PyStr(<<"a">>)
    /\ Downloads = <<[fn |-> "download_subtitles", url |-> "M1", format |-> "json3"]>>

\* The provider's field behind each field of the record, and the default
\* the claim gives it.
FieldSource ==
    [video_id |-> "id", thumbnail_url |-> "thumbnail", description |-> "description",
     length |-> "duration", views |-> "view_count", author |-> "uploader",
     channel_id |-> "channel_id", channel_url |-> "channel_url",
     publish_date |-> "upload_date", rating |-> "average_rating", keywords |-> "tags"]
FieldDefault ==
    [video_id |-> PyNone, thumbnail_url |-> PyNone, description |-> PyStr(""),
     length |-> PyInt(0), views |-> PyInt(0), author |-> PyStr(""),
     channel_id |-> PyNone, channel_url |-> PyNone, publish_date |-> PyNone,
     rating |-> PyFloat(0), keywords |-> PyList(<<>>)]

MetadataIntact ==
    /\ \A f \in DOMAIN FieldSource :
          result[f] = IF FieldSource[f] \in DOMAIN Info
                      THEN Info[FieldSource[f]]
                      ELSE FieldDefault[f]
    /\ result["age_restricted"] =
          PyBool("age_limit" \in DOMAIN Info /\ Info["age_limit"].v > 0)

\* C8: whatever subset of the optional fields the provider leaves out,
\* get_youtube_content returns the full record, not an error record, with
\* each missing field at its default and each present field at the
\* provider's value.  (Descriptors as the data model has them.)
C8_MissingFieldsDefault ==
    (ContentDone /\ IsWellFormed(Chosen)) =>
        /\ "error" \notin DOMAIN result
        /\ DOMAIN result =
              DOMAIN FieldSource \cup {"age_restricted", "transcript", "transcript_source"}
        /\ MetadataIntact

C8_Witness ==
    /\ ContentDone
    /\ DOMAIN Info \cap {"average_rating", "tags", "channel_id"} = {}
    /\ "description" \in DOMAIN Info
    /\ "error" \notin DOMAIN result
    /\ result["rating"] = PyFloat(0)
    /\ result["keywords"] = PyList(<<>>)
    /\ result["channel_id"] = PyNone
    /\ result["description"] = PyStr("a description")

NetFailed ==
    ~(/\ net.kind = "http" /\ net.status = 200
      /\ net.body.t = "object" /\ "events" \in DOMAIN net.body.v)

\* C9: a network or parse failure in the transcript pipeline (failed
\* request, malformed or event-less body, a descriptor missing a key) leaves
\* get_youtube_content returning the metadata record, every other field
\* intact and not an error record, with an empty transcript when the
\* download failed.
C9_FailureDegradesTranscriptOnly ==
    (/\ ContentDone
     /\ "en" \in DOMAIN ManualTrack \cup DOMAIN AutoTrack
     /\ NetFailed \/ ~IsWellFormed(Chosen)) =>
        /\ "error" \notin DOMAIN result
        /\ MetadataIntact
        /\ NetFailed => result["transcript"] = PyStr(<<>>)

====
